---- MODULE Spec2Model ----
(***************************************************************************)
(* State machine of src/bot.py: a Telegram bot that relays text to an AI   *)
(* completion service, with a per-user daily quota (USER_COUNTERS, saved   *)
(* to user_counters.json) and a one-shot translation mode                  *)
(* (TRANSLATE_MODE_USERS).                                                 *)
(*                                                                         *)
(* Handlers are asyncio coroutines.  One action of the model is one        *)
(* segment of a handler between two awaits: asyncio runs such a segment    *)
(* without interleaving anything else.                                     *)
(*                                                                         *)
(* Texts are sequences of characters.  A literal of the program that is    *)
(* never inspected character by character (a canned reply, the prompt      *)
(* prefix) is written as one element.  Emoji of the literals are omitted.  *)
(***************************************************************************)
EXTENDS Integers, Sequences, FiniteSets, TLC

(* ---------------- bounds of the model ---------------- *)

\* Handler invocations that can exist at once (slots of the event loop).
MaxTasks == 2

\* The clock (datetime.now()) runs from 0 to MaxTime ticks.
MaxTime == 1

\* Ticks of the clock per second: datetime has microsecond resolution, the
\* model has TicksPerSecond sub-second ticks.
TicksPerSecond == 2

\* timedelta(days=1), scaled to clock ticks.
Day == 1

\* DAILY_LIMIT = 50 in the source, scaled so that the limit is reached.
DAILY_LIMIT == 2

\* Typing signals counted per invocation.
MaxSignals == 1

\* Length of the texts clean_response is applied to by itself.
MaxLen == 6

\* The users that send updates (update.message.from_user.id): two, so that
\* one user's handler can meet another user's record.
Users == {1, 2}

Tasks == 1..MaxTasks

(* ---------------- texts ---------------- *)

Whitespace == {" ", "\n"}

\* str.lower() on the characters the inputs use.
LowerChar(c) ==
    CASE c = "H" -> "h"
      [] c = "I" -> "i"
      [] c = "Y" -> "y"
      [] c = "O" -> "o"
      [] OTHER -> c

Lower(s) == [k \in 1..Len(s) |-> LowerChar(s[k])]

RECURSIVE LStrip(_)
LStrip(s) ==
    IF s # <<>> /\ Head(s) \in Whitespace THEN LStrip(Tail(s)) ELSE s

RECURSIVE RStrip(_)
RStrip(s) ==
    IF s # <<>> /\ s[Len(s)] \in Whitespace
    THEN RStrip(SubSeq(s, 1, Len(s) - 1))
    ELSE s

\* str.strip()
Strip(s) == RStrip(LStrip(s))

\* text.replace("**", ""): left to right, non-overlapping.
RECURSIVE ReplaceBold(_)
ReplaceBold(s) ==
    IF Len(s) < 2 THEN s
    ELSE IF s[1] = "*" /\ s[2] = "*" THEN ReplaceBold(SubSeq(s, 3, Len(s)))
    ELSE <<s[1]>> \o ReplaceBold(Tail(s))

\* Index of the first ">" of s at or after position k, 0 if there is none.
RECURSIVE FirstClose(_, _)
FirstClose(s, k) ==
    IF k > Len(s) THEN 0
    ELSE IF s[k] = ">" THEN k
    ELSE FirstClose(s, k + 1)

\* re.sub(r"<[^>]+>", "", text): leftmost matches, non-overlapping.  A match
\* starts at a "<" that is followed by at least one character other than
\* ">" and then, somewhere later, by a ">"; it ends at the first such ">".
RECURSIVE StripTags(_)
StripTags(s) ==
    IF s = <<>> THEN s
    ELSE IF s[1] = "<" /\ Len(s) >= 3 /\ s[2] # ">" /\ FirstClose(s, 3) # 0
    THEN StripTags(SubSeq(s, FirstClose(s, 3) + 1, Len(s)))
    ELSE <<s[1]>> \o StripTags(Tail(s))

\* Variant: the text is trimmed first, the markup removed afterwards.
clean_response_strip_first(text) == StripTags(ReplaceBold(Strip(text)))

clean_response(text) == Strip(StripTags(ReplaceBold(text)))

\* update.message.text of the inbound messages.
UserTexts == { <<" ", "H", "i", " ">>, <<"y", "o">> }

\* response.choices[0].message.content of a successful completion.
AIResponses == { <<"o", "k">>, <<"*", "*", "<", "b", ">", "o", "k", " ">> }

Greeting == <<"Hello! How can I assist you today?">>

Welcome == <<"You're welcome!">>

CACHE ==
    (<<"h", "i">> :> Greeting)
    @@ (<<"h", "e", "l", "l", "o">> :> Greeting)
    @@ (<<"t", "h", "a", "n", "k", "s">> :> Welcome)
    @@ (<<"t", "h", "a", "n", "k", " ", "y", "o", "u">> :> Welcome)

LimitNotice == <<"You have reached your daily limit of DAILY_LIMIT messages. Please try again tomorrow.">>

Apology == <<"Sorry, I'm busy right now. Try again later.">>

StartText == <<"Hello! I'm your AI assistant. Use the menu button to access my commands.">>

HelpText == <<"Instructions: ... Daily limit: DAILY_LIMIT messages per user.">>

TranslateAsk == <<"Send me the text you want to translate (English <-> Khmer):">>

TranslatePrompt(user_message) ==
    <<"Translate this text to Khmer and English: ">> \o user_message

(* ---------------- the ledger and its file ---------------- *)

\* datetime.isoformat(): seconds, and the sub-second part unless it is zero.
isoformat(t) ==
    IF t % TicksPerSecond = 0
    THEN <<t \div TicksPerSecond>>
    ELSE <<t \div TicksPerSecond, t % TicksPerSecond>>

\* A parse that reads the seconds only.
fromisoformat_seconds(s) == s[1] * TicksPerSecond

\* datetime.fromisoformat(): a missing sub-second part reads as zero.
fromisoformat(s) ==
    s[1] * TicksPerSecond + (IF Len(s) = 2 THEN s[2] ELSE 0)

NoRecords == [u \in {} |-> 0]

\* d[user_id] = rec on a dict.
Put(d, u, rec) == [v \in DOMAIN d \cup {u} |-> IF v = u THEN rec ELSE d[v]]

\* The data built by save_counters and written with json.dump.
Dump(counters) ==
    [u \in DOMAIN counters |->
        [count |-> counters[u].count,
         reset_time |-> isoformat(counters[u].reset_time)]]

\* json.load and the fromisoformat loop at start-up.
Load(data) ==
    [u \in DOMAIN data |->
        [count |-> data[u].count,
         reset_time |-> fromisoformat(data[u].reset_time)]]

AbsentFile == [state |-> "absent", data |-> NoRecords]

\* open(COUNTERS_FILE, "w") truncates the file; a failure of the write after
\* that leaves a file that is not JSON.
CorruptFile == [state |-> "corrupt", data |-> NoRecords]

WriteOutcomes == {"ok", "open_failed", "write_failed"}

\* save_counters that writes only the records with a count other than 0.
save_counters_nonzero(counters, f, w) ==
    CASE w = "ok" ->
            [state |-> "ok",
             data |-> Dump([u \in {v \in DOMAIN counters : counters[v].count # 0}
                               |-> counters[u]])]
      [] w = "open_failed" -> f
      [] OTHER -> CorruptFile

\* The file after save_counters() with the given outcome of the write.
save_counters(counters, f, w) ==
    CASE w = "ok" -> [state |-> "ok", data |-> Dump(counters)]
      [] w = "open_failed" -> f
      [] OTHER -> CorruptFile

\* check_user_limit with the window test written "now > reset_time".
check_user_limit_late(counters, u, t) ==
    IF u \in DOMAIN counters
    THEN IF t > counters[u].reset_time
         THEN [admit |-> TRUE, branch |-> "reset",
               counters |-> Put(counters, u, [count |-> 0, reset_time |-> t + Day])]
         ELSE IF counters[u].count >= DAILY_LIMIT
         THEN [admit |-> FALSE, branch |-> "limit", counters |-> counters]
         ELSE [admit |-> TRUE, branch |-> "under", counters |-> counters]
    ELSE [admit |-> TRUE, branch |-> "new",
          counters |-> Put(counters, u, [count |-> 0, reset_time |-> t + Day])]

\* check_user_limit with the limit test written "count > DAILY_LIMIT".
check_user_limit_gt(counters, u, t) ==
    IF u \in DOMAIN counters
    THEN IF t >= counters[u].reset_time
         THEN [admit |-> TRUE, branch |-> "reset",
               counters |-> Put(counters, u, [count |-> 0, reset_time |-> t + Day])]
         ELSE IF counters[u].count > DAILY_LIMIT
         THEN [admit |-> FALSE, branch |-> "limit", counters |-> counters]
         ELSE [admit |-> TRUE, branch |-> "under", counters |-> counters]
    ELSE [admit |-> TRUE, branch |-> "new",
          counters |-> Put(counters, u, [count |-> 0, reset_time |-> t + Day])]

\* check_user_limit that admits a user without record and does not create
\* the record.
check_user_limit_nocreate(counters, u, t) ==
    IF u \in DOMAIN counters
    THEN IF t >= counters[u].reset_time
         THEN [admit |-> TRUE, branch |-> "reset",
               counters |-> Put(counters, u, [count |-> 0, reset_time |-> t + Day])]
         ELSE IF counters[u].count >= DAILY_LIMIT
         THEN [admit |-> FALSE, branch |-> "limit", counters |-> counters]
         ELSE [admit |-> TRUE, branch |-> "under", counters |-> counters]
    ELSE [admit |-> TRUE, branch |-> "new", counters |-> counters]

\* check_user_limit(user_id) at time t: the verdict, the branch taken and
\* USER_COUNTERS afterwards.
check_user_limit(counters, u, t) ==
    IF u \in DOMAIN counters
    THEN IF t >= counters[u].reset_time
         THEN [admit |-> TRUE, branch |-> "reset",
               counters |-> Put(counters, u, [count |-> 0, reset_time |-> t + Day])]
         ELSE IF counters[u].count >= DAILY_LIMIT
         THEN [admit |-> FALSE, branch |-> "limit", counters |-> counters]
         ELSE [admit |-> TRUE, branch |-> "under", counters |-> counters]
    ELSE [admit |-> TRUE, branch |-> "new",
          counters |-> Put(counters, u, [count |-> 0, reset_time |-> t + Day])]

\* Variant: the commit counts a message twice.
Increment_twice(counters, u) ==
    [counters EXCEPT ![u] = [count |-> @.count + 2, reset_time |-> @.reset_time]]

\* USER_COUNTERS[user_id]["count"] += 1
Increment(counters, u) ==
    [counters EXCEPT ![u] = [count |-> @.count + 1, reset_time |-> @.reset_time]]

(* ---------------- state ---------------- *)

VARIABLES
    USER_COUNTERS,          \* dict user_id -> {count, reset_time}
    TRANSLATE_MODE_USERS,   \* set of user ids
    file,                   \* user_counters.json
    now,                    \* datetime.now()
    proc,                   \* "running", "conflict", "exited" or "crashed"
    handlers,               \* the handler invocations, by slot
    sanitizing              \* a call of clean_response taken by itself

vars == <<USER_COUNTERS, TRANSLATE_MODE_USERS, file, now, proc, handlers,
          sanitizing>>

\* A slot no invocation has used since the process started.
IdleTask ==
    [pc |-> "idle", kind |-> "none", user |-> 0, text |-> <<>>,
     branch |-> "none", is_translate_mode |-> FALSE, prompt |-> <<>>,
     ai |-> "none", typing |-> "none", signals |-> 0, reply |-> <<>>,
     saved |-> "none", error |-> "none"]

\* An invocation is in flight from its dispatch until it returns or raises.
Active(i) == handlers[i].pc \in {"awaiting_ai", "replying"}

\* A slot is taken while its invocation is in flight or its typing task runs.
Taken(i) == Active(i) \/ handlers[i].typing = "running"

\* The application built with concurrent_updates(True): every update's
\* handler runs as a task of its own.
ConcurrentUpdatesOn == TRUE

\* Application.builder()...build() is not given concurrent_updates(True) and
\* the handlers are added with the default block=True: the application
\* awaits each update's handler before it takes the next update.
ConcurrentUpdates == FALSE

\* The slot a new invocation takes, if the application dispatches one now.
FreeSlot(i) ==
    /\ ~Taken(i)
    /\ \A j \in Tasks : j < i => Taken(j)
    /\ ConcurrentUpdates \/ \A j \in Tasks : ~Active(j)

\* No call of clean_response is looked at by itself.
NoCall == [stage |-> "none", text |-> <<>>, out |-> <<>>, again |-> <<>>]

Init ==
    /\ USER_COUNTERS = NoRecords
    /\ TRANSLATE_MODE_USERS = {}
    /\ file = AbsentFile
    /\ now = 0
    /\ proc = "running"
    /\ handlers = [i \in Tasks |-> IdleTask]
    /\ sanitizing = NoCall

(* ---------------- the handlers ---------------- *)

\* The slot of a handler dispatched for user u.
NewTask(kind, u) == [IdleTask EXCEPT !.kind = kind, !.user = u]

\* The outcomes of openai.ChatCompletion.acreate.
AIOutcomes ==
    {[ok |-> TRUE, content |-> r] : r \in AIResponses}
    \cup {[ok |-> FALSE, content |-> <<>>]}

\* fetch_chatgpt_reply without its except clause's fixed text: a failed call
\* yields whatever content there is.
fetch_chatgpt_reply_raw(outcome) == clean_response(outcome.content)

\* What fetch_chatgpt_reply returns once the completion call has settled.
fetch_chatgpt_reply(outcome) ==
    IF outcome.ok THEN clean_response(outcome.content) ELSE Apology

\* The key computed without lower().
CacheKey_cased(user_message) == Strip(user_message)

\* key = user_message.lower().strip()
CacheKey(user_message) == Strip(Lower(user_message))

\* Lines 156-157 run only when the completion succeeded.
ConsumeTurn_on_success(mode_users, h) ==
    IF h.is_translate_mode /\ h.ai = "ok" THEN mode_users \ {h.user} ELSE mode_users

\* Lines 156-157 written as TRANSLATE_MODE_USERS.clear().
ConsumeTurn_clear(mode_users, h) ==
    IF h.is_translate_mode THEN {} ELSE mode_users

\* Lines 156-157: TRANSLATE_MODE_USERS after the translation turn of h.
ConsumeTurn(mode_users, h) ==
    IF h.is_translate_mode THEN mode_users \ {h.user} ELSE mode_users

\* Line 159 left out.
CancelTyping_never(t) == t

\* typing_task.cancel()
CancelTyping(t) == IF t = "running" THEN "cancelled" ELSE t

\* The slot of an invocation that has left its handler from reply_text or
\* with an exception, returning ("done") or raising ("raised"): only how it
\* ended is kept, and the outcome of the completion with a save that
\* raised.  Its typing task goes on if nothing cancelled it.
Ended(h, pc, error) ==
    [IdleTask EXCEPT !.pc = pc, !.error = error,
                     !.ai = IF error = "OSError" THEN h.ai ELSE "none",
                     !.typing = IF h.typing = "running" THEN "running" ELSE "none",
                     !.signals = IF h.typing = "running" THEN h.signals ELSE 0]

\* Lines 159-161 for the invocation h of user u whose save has outcome w:
\* the slot afterwards.  The save's exception leaves the handler.
Committed(h, w) ==
    LET c == [h EXCEPT !.typing = CancelTyping(@), !.saved = w]
    IN  IF w = "ok" THEN [c EXCEPT !.pc = "replying"]
        ELSE Ended(c, "raised", "OSError")

\* chat(), from its dispatch to its first await: the limit notice (line
\* 132), the cached reply (line 163) or the completion call (line 155).
chat_begin(u, user_message) ==
    /\ proc = "running"
    /\ \E i \in Tasks :
        /\ FreeSlot(i)
        /\ LET chk == check_user_limit(USER_COUNTERS, u, now)
               mode == u \in TRANSLATE_MODE_USERS
               key == CacheKey(user_message)
               h == [NewTask("chat", u) EXCEPT !.text = user_message,
                                              !.branch = chk.branch]
           IN  IF ~chk.admit
               THEN /\ USER_COUNTERS' = chk.counters
                    /\ handlers' = [handlers EXCEPT ![i] =
                           [h EXCEPT !.pc = "replying", !.reply = LimitNotice]]
                    /\ UNCHANGED <<TRANSLATE_MODE_USERS, file>>
               ELSE IF key \in DOMAIN CACHE /\ ~mode
               THEN \E w \in WriteOutcomes :
                    /\ USER_COUNTERS' = Increment(chk.counters, u)
                    /\ file' = save_counters(USER_COUNTERS', file, w)
                    /\ handlers' = [handlers EXCEPT ![i] =
                           Committed([h EXCEPT !.typing = "running",
                                               !.reply = CACHE[key]], w)]
                    /\ UNCHANGED TRANSLATE_MODE_USERS
               ELSE /\ USER_COUNTERS' = chk.counters
                    /\ handlers' = [handlers EXCEPT ![i] =
                           [h EXCEPT !.pc = "awaiting_ai",
                                     !.is_translate_mode = mode,
                                     !.typing = "running",
                                     !.prompt = IF mode
                                                THEN TranslatePrompt(user_message)
                                                ELSE user_message,
                                     !.ai = "pending"]]
                    /\ UNCHANGED <<TRANSLATE_MODE_USERS, file>>
    /\ UNCHANGED <<now, proc, sanitizing>>

\* send_typing(): one round of the loop of the typing task of invocation i
\* (signals past MaxSignals are not counted).
send_typing(i) ==
    /\ proc = "running"
    /\ handlers[i].typing = "running"
    /\ handlers[i].signals < MaxSignals
    /\ handlers' = [handlers EXCEPT ![i].signals = @ + 1]
    /\ UNCHANGED <<USER_COUNTERS, TRANSLATE_MODE_USERS, file, now, proc, sanitizing>>

\* chat(), from the moment the completion call settles to the await of
\* reply_text: lines 121-124 and 156-161.
chat_resume(i) ==
    /\ proc = "running"
    /\ handlers[i].pc = "awaiting_ai"
    /\ \E outcome \in AIOutcomes, w \in WriteOutcomes :
        LET h == [handlers[i] EXCEPT !.reply = fetch_chatgpt_reply(outcome),
                                     !.ai = IF outcome.ok THEN "ok" ELSE "failed"]
            u == h.user
        IN  IF h.is_translate_mode /\ u \notin TRANSLATE_MODE_USERS
            THEN \* set.remove raises KeyError at line 157
                 /\ handlers' = [handlers EXCEPT ![i] = Ended(h, "raised", "KeyError")]
                 /\ UNCHANGED <<USER_COUNTERS, TRANSLATE_MODE_USERS, file>>
            ELSE IF u \notin DOMAIN USER_COUNTERS
            THEN \* USER_COUNTERS[user_id] raises KeyError at line 160
                 /\ handlers' = [handlers EXCEPT ![i] =
                        Ended([h EXCEPT !.typing = CancelTyping(@)],
                              "raised", "KeyError")]
                 /\ TRANSLATE_MODE_USERS' = ConsumeTurn(TRANSLATE_MODE_USERS, h)
                 /\ UNCHANGED <<USER_COUNTERS, file>>
            ELSE /\ TRANSLATE_MODE_USERS' = ConsumeTurn(TRANSLATE_MODE_USERS, h)
                 /\ USER_COUNTERS' = Increment(USER_COUNTERS, u)
                 /\ file' = save_counters(USER_COUNTERS', file, w)
                 /\ handlers' = [handlers EXCEPT ![i] = Committed(h, w)]
    /\ UNCHANGED <<now, proc, sanitizing>>

\* await update.message.reply_text(...) returns, or raises a network error.
reply_done(i) ==
    /\ proc = "running"
    /\ handlers[i].pc = "replying"
    /\ \E sent \in BOOLEAN :
        handlers' = [handlers EXCEPT ![i] =
            IF sent
            THEN Ended(@, "done", "none")
            ELSE Ended(@, "raised", "NetworkError")]
    /\ UNCHANGED <<USER_COUNTERS, TRANSLATE_MODE_USERS, file, now, proc, sanitizing>>

\* start(), up to its await of reply_text.
start(u) ==
    /\ proc = "running"
    /\ \E i \in Tasks :
        /\ FreeSlot(i)
        /\ handlers' = [handlers EXCEPT ![i] =
               [NewTask("start", u) EXCEPT !.pc = "replying", !.reply = StartText]]
    /\ UNCHANGED <<USER_COUNTERS, TRANSLATE_MODE_USERS, file, now, proc, sanitizing>>

\* help_command(), up to its await of reply_text.
help_command(u) ==
    /\ proc = "running"
    /\ \E i \in Tasks :
        /\ FreeSlot(i)
        /\ handlers' = [handlers EXCEPT ![i] =
               [NewTask("help", u) EXCEPT !.pc = "replying", !.reply = HelpText]]
    /\ UNCHANGED <<USER_COUNTERS, TRANSLATE_MODE_USERS, file, now, proc, sanitizing>>

\* Variant: /translate switches the mode on and off.
EnterMode_toggle(mode_users, u) ==
    IF u \in mode_users THEN mode_users \ {u} ELSE mode_users \cup {u}

\* TRANSLATE_MODE_USERS.add(user_id)
EnterMode(mode_users, u) == mode_users \cup {u}

\* translate_command(), up to its await of reply_text.
translate_command(u) ==
    /\ proc = "running"
    /\ \E i \in Tasks :
        /\ FreeSlot(i)
        /\ LET chk == check_user_limit(USER_COUNTERS, u, now)
               h == [NewTask("translate", u) EXCEPT !.pc = "replying",
                                                   !.branch = chk.branch]
           IN  /\ USER_COUNTERS' = chk.counters
               /\ TRANSLATE_MODE_USERS' =
                      IF chk.admit
                      THEN EnterMode(TRANSLATE_MODE_USERS, u)
                      ELSE TRANSLATE_MODE_USERS
               /\ handlers' = [handlers EXCEPT ![i] =
                      [h EXCEPT !.reply = IF chk.admit THEN TranslateAsk
                                          ELSE LimitNotice]]
    /\ UNCHANGED <<file, now, proc, sanitizing>>

\* The clock advances.
Tick ==
    /\ now < MaxTime
    /\ now' = now + 1
    /\ UNCHANGED <<USER_COUNTERS, TRANSLATE_MODE_USERS, file, proc, handlers, sanitizing>>

\* Variant: the set of the stopped process is carried over the restart.
ModeAtStartup_persisted(mode_users) == mode_users

\* TRANSLATE_MODE_USERS = set() at module level: whatever the set of the
\* stopped process was, the new process starts with the empty one.
ModeAtStartup(mode_users) == {}

\* The exit status of the process in state p (-1: it has not ended).  An
\* exception that leaves the module level ends the interpreter with
\* status 1; main() returning ends it with status 0.
ExitStatusOf(p) ==
    CASE p = "crashed" -> 1
      [] p = "exited" -> 0
      [] OTHER -> -1

\* The process is stopped and started again: the module level runs anew
\* (lines 33-43), then main() starts polling.  json.load raises on a file
\* that is not JSON.  When another instance of the bot is polling, the
\* Bot API answers getUpdates with Conflict: proc = "conflict" is the
\* process that has just been told so.
Restart ==
    /\ proc = "running"
    /\ \E conflict \in BOOLEAN :
        proc' = IF file.state = "corrupt" THEN "crashed"
                ELSE IF conflict THEN "conflict" ELSE "running"
    /\ USER_COUNTERS' = IF file.state = "ok" THEN Load(file.data) ELSE NoRecords
    /\ TRANSLATE_MODE_USERS' = ModeAtStartup(TRANSLATE_MODE_USERS)
    /\ handlers' = [i \in Tasks |-> IdleTask]
    /\ UNCHANGED <<file, now, sanitizing>>

\* The Conflict is handed to error_handler (lines 166-170): it prints
\* "Another bot instance is running" and returns; the updater goes on
\* polling.
error_handler ==
    /\ proc = "conflict"
    /\ proc' = "running"
    /\ UNCHANGED <<USER_COUNTERS, TRANSLATE_MODE_USERS, file, now, handlers, sanitizing>>

\* The Conflict leaves app.run_polling(): main() catches it (lines
\* 196-198), prints two lines and returns, and the interpreter ends with
\* status 0.
main_except_Conflict ==
    /\ proc = "conflict"
    /\ proc' = "exited"
    /\ UNCHANGED <<USER_COUNTERS, TRANSLATE_MODE_USERS, file, now, handlers, sanitizing>>

Next ==
    \/ \E u \in Users, m \in UserTexts : chat_begin(u, m)
    \/ \E i \in Tasks : send_typing(i)
    \/ \E i \in Tasks : chat_resume(i)
    \/ \E i \in Tasks : reply_done(i)
    \/ \E u \in Users : start(u)
    \/ \E u \in Users : help_command(u)
    \/ \E u \in Users : translate_command(u)
    \/ Tick
    \/ Restart
    \/ error_handler
    \/ main_except_Conflict

Spec == Init /\ [][Next]_vars

(* ---------------- clean_response by itself ---------------- *)

\* The characters of the texts clean_response is applied to: the ones it
\* looks for, a whitespace and an ordinary character.
Alphabet == {"*", "<", ">", " ", "b"}

\* The texts over Alphabet of length up to n.
TextsUpTo(n) == UNION {[1..k -> Alphabet] : k \in 0..n}

\* The bot at rest, and a reply text of the completion about to be
\* sanitized.
InitClean ==
    /\ USER_COUNTERS = NoRecords
    /\ TRANSLATE_MODE_USERS = {}
    /\ file = AbsentFile
    /\ now = 0
    /\ proc = "running"
    /\ handlers = [i \in Tasks |-> IdleTask]
    /\ \E t \in TextsUpTo(MaxLen) :
        sanitizing = [NoCall EXCEPT !.stage = "called", !.text = t]

\* clean_response(text) returns.
Sanitize ==
    /\ sanitizing.stage = "called"
    /\ sanitizing' = [sanitizing EXCEPT !.stage = "returned",
                                        !.out = clean_response(sanitizing.text)]
    /\ UNCHANGED <<USER_COUNTERS, TRANSLATE_MODE_USERS, file, now, proc, handlers>>

\* clean_response applied to its own result.
SanitizeAgain ==
    /\ sanitizing.stage = "returned"
    /\ sanitizing' = [sanitizing EXCEPT !.stage = "again",
                                        !.again = clean_response(sanitizing.out)]
    /\ UNCHANGED <<USER_COUNTERS, TRANSLATE_MODE_USERS, file, now, proc, handlers>>

NextClean ==
    \/ Sanitize
    \/ SanitizeAgain

SpecClean == InitClean /\ [][NextClean]_vars

TypeOK ==
    /\ DOMAIN USER_COUNTERS \subseteq Users
    /\ \A u \in DOMAIN USER_COUNTERS :
        /\ USER_COUNTERS[u].count \in Nat
        /\ USER_COUNTERS[u].reset_time \in 0..(MaxTime + Day)
    /\ TRANSLATE_MODE_USERS \subseteq Users
    /\ file.state \in {"absent", "ok", "corrupt"}
    /\ now \in 0..MaxTime
    /\ proc \in {"running", "conflict", "exited", "crashed"}

(* ---------------- properties ---------------- *)

\* The step is chat_begin(u, m).  The first conjunct follows from the
\* second (the slot a chat invocation takes shows its user and text, or a
\* save that raised); it only spares evaluating the action on other steps.
ChatBegins(u, m) ==
    /\ \E i \in Tasks :
        /\ FreeSlot(i)
        /\ \/ handlers'[i].user = u /\ handlers'[i].text = m
           \/ handlers'[i].error = "OSError"
    /\ chat_begin(u, m)

\* Some slot holds a chat invocation that was refused and is sending the
\* limit notice.
RejectedChat(i) ==
    /\ handlers[i].kind = "chat"
    /\ handlers[i].branch = "limit"
    /\ handlers[i].pc = "replying"

\* C1: in every reachable state, under every order in which the handlers'
\* segments run, no user's record has a count greater than DAILY_LIMIT: no
\* more than DAILY_LIMIT replies are committed between two resets.
C1_QuotaNeverExceeded ==
    \A u \in DOMAIN USER_COUNTERS : USER_COUNTERS[u].count <= DAILY_LIMIT

\* A user has used the whole quota and the next message is being refused.
C1_Witness ==
    \E i \in Tasks :
        /\ RejectedChat(i)
        /\ USER_COUNTERS[handlers[i].user].count = DAILY_LIMIT

\* The record of u is over the limit inside its window.
OverLimit(u) ==
    /\ u \in DOMAIN USER_COUNTERS
    /\ USER_COUNTERS[u].count >= DAILY_LIMIT
    /\ now < USER_COUNTERS[u].reset_time

\* C3: a chat message of a user whose record has count >= DAILY_LIMIT and
\* now < reset_time changes neither USER_COUNTERS nor TRANSLATE_MODE_USERS
\* nor the file; its invocation goes straight to sending the limit notice,
\* with no completion call, no typing task and no save.
C3_RejectionChangesNothing ==
    [][\A u \in Users, m \in UserTexts :
        (OverLimit(u) /\ ChatBegins(u, m)) =>
            /\ UNCHANGED <<USER_COUNTERS, TRANSLATE_MODE_USERS, file>>
            /\ \E i \in Tasks :
                /\ handlers' = [handlers EXCEPT ![i] = handlers'[i]]
                /\ handlers'[i].pc = "replying"
                /\ handlers'[i].reply = LimitNotice
                /\ handlers'[i].ai = "none"
                /\ handlers'[i].typing = "none"
                /\ handlers'[i].saved = "none"]_vars

\* A refused message is sending its notice; the file holds a ledger.
C3_Witness ==
    \E i \in Tasks :
        /\ RejectedChat(i)
        /\ OverLimit(handlers[i].user)
        /\ file.state = "ok"

\* The invocation in slot i is a translation turn waiting for its completion.
TranslationTurn(i) ==
    /\ handlers[i].kind = "chat"
    /\ handlers[i].pc = "awaiting_ai"
    /\ handlers[i].is_translate_mode

\* While a translation turn of a user is in flight the user is still in
\* translation mode, the prompt is the translation prompt, and no other
\* chat invocation of that user is in flight.
OneTurnInFlight ==
    \A i \in Tasks :
        TranslationTurn(i) =>
            /\ handlers[i].user \in TRANSLATE_MODE_USERS
            /\ handlers[i].prompt = TranslatePrompt(handlers[i].text)
            /\ \A j \in Tasks \ {i} :
                ~(handlers[j].kind = "chat" /\ Active(j)
                  /\ handlers[j].user = handlers[i].user)

\* C2: a chat message of a user in translation mode is a translation turn
\* (completion called with the translation prompt); when its call settles,
\* with a reply or with a failure, the user leaves translation mode and the
\* removal does not fail; a chat message of a user not in translation mode
\* is ordinary chat and does not enter the mode.  Only translate_command
\* puts a user in the mode and only the end of the turn (or a restart of
\* the process) takes the user out of it.  No second message of the user
\* is in flight during the turn.
C2_OneShotTranslation ==
    /\ []OneTurnInFlight
    /\ [][/\ \A u \in TRANSLATE_MODE_USERS, m \in UserTexts :
              ChatBegins(u, m) =>
                  \E i \in Tasks :
                      /\ FreeSlot(i)
                      /\ handlers'[i].pc = "awaiting_ai"
                      /\ handlers'[i].is_translate_mode
                      /\ handlers'[i].ai = "pending"
                      /\ handlers'[i].prompt = TranslatePrompt(m)
                      /\ u \in TRANSLATE_MODE_USERS'
          /\ \A i \in Tasks :
              (/\ handlers'[i].kind = "chat"
               /\ handlers'[i].user \notin TRANSLATE_MODE_USERS
               /\ FreeSlot(i)) =>
                  /\ ~handlers'[i].is_translate_mode
                  /\ handlers'[i].prompt \in {<<>>, handlers'[i].text}
          /\ \A i \in Tasks :
              (TranslationTurn(i) /\ chat_resume(i)) =>
                  /\ TRANSLATE_MODE_USERS' = TRANSLATE_MODE_USERS \ {handlers[i].user}
                  /\ handlers'[i].error # "KeyError"
          /\ \A u \in Users :
              (u \notin TRANSLATE_MODE_USERS /\ u \in TRANSLATE_MODE_USERS') =>
                  translate_command(u)
          /\ \A u \in Users :
              (u \in TRANSLATE_MODE_USERS /\ u \notin TRANSLATE_MODE_USERS') =>
                  \/ Restart
                  \/ \E i \in Tasks :
                      /\ TranslationTurn(i)
                      /\ handlers[i].user = u
                      /\ chat_resume(i)
         ]_vars

\* A translation turn whose completion failed has been committed and the
\* user is out of translation mode.
C2_Witness ==
    \E i \in Tasks :
        /\ handlers[i].kind = "chat"
        /\ handlers[i].is_translate_mode
        /\ handlers[i].ai = "failed"
        /\ handlers[i].pc = "replying"
        /\ handlers[i].prompt = TranslatePrompt(handlers[i].text)
        /\ handlers[i].user \notin TRANSLATE_MODE_USERS

\* The record of u has expired.
Expired(u) ==
    /\ u \in DOMAIN USER_COUNTERS
    /\ now >= USER_COUNTERS[u].reset_time

\* C4: a chat message of a user whose record has now >= reset_time is
\* admitted whatever the count was; the record becomes count 0 and
\* reset_time now + Day; the count stays 0 while the message waits for its
\* completion and is exactly 1 after the message's commit.
C4_ResetThenOne ==
    /\ [](\A i \in Tasks :
            (handlers[i].kind = "chat" /\ handlers[i].pc = "awaiting_ai"
             /\ handlers[i].branch = "reset") =>
                USER_COUNTERS[handlers[i].user].count = 0)
    /\ [][/\ \A u \in Users, m \in UserTexts :
              (Expired(u) /\ ChatBegins(u, m)) =>
                  \E i \in Tasks :
                      /\ FreeSlot(i)
                      /\ handlers'[i].reply # LimitNotice
                      /\ USER_COUNTERS'[u].reset_time = now + Day
                      /\ USER_COUNTERS'[u].count =
                             IF handlers'[i].pc = "awaiting_ai" THEN 0 ELSE 1
          /\ \A i \in Tasks :
              (handlers[i].pc = "awaiting_ai" /\ handlers[i].branch = "reset"
               /\ chat_resume(i)) =>
                  /\ USER_COUNTERS'[handlers[i].user].count = 1
                  /\ USER_COUNTERS'[handlers[i].user].reset_time =
                         USER_COUNTERS[handlers[i].user].reset_time
         ]_vars

\* A message that found an expired record is waiting for its completion:
\* the record is reset to 0 while the file still shows the old window's
\* count, which had reached the limit.
C4_Witness ==
    \E i \in Tasks :
        /\ handlers[i].kind = "chat"
        /\ handlers[i].pc = "awaiting_ai"
        /\ handlers[i].branch = "reset"
        /\ USER_COUNTERS[handlers[i].user].count = 0
        /\ file.state = "ok"
        /\ handlers[i].user \in DOMAIN file.data
        /\ file.data[handlers[i].user].count = DAILY_LIMIT

\* The message m, lowercased and trimmed, is a key of the cache.
IsCached(m) == Strip(Lower(m)) \in DOMAIN CACHE

\* C5: an admitted chat message whose text, lowercased and trimmed, is a
\* key of CACHE: when the user is not in translation mode no completion is
\* called for it and the reply it sends is the cached text; when the user
\* is in translation mode the completion is called with the translation
\* prompt.
C5_CacheUnlessTranslating ==
    [][\A u \in Users, m \in UserTexts :
        (IsCached(m) /\ ~OverLimit(u) /\ ChatBegins(u, m)) =>
            \E i \in Tasks :
                /\ FreeSlot(i)
                /\ IF u \in TRANSLATE_MODE_USERS
                   THEN /\ handlers'[i].pc = "awaiting_ai"
                        /\ handlers'[i].ai = "pending"
                        /\ handlers'[i].prompt = TranslatePrompt(m)
                   ELSE /\ handlers'[i].ai = "none"
                        /\ handlers'[i].pc \in {"replying", "raised"}
                        /\ handlers'[i].pc = "replying" =>
                               handlers'[i].reply = CACHE[Strip(Lower(m))]
      ]_vars

\* A message that differs from a cache key by case and blanks is being
\* answered with the cached text, without a completion call.
C5_Witness ==
    \E i \in Tasks :
        /\ handlers[i].kind = "chat"
        /\ handlers[i].pc = "replying"
        /\ handlers[i].text = <<" ", "H", "i", " ">>
        /\ handlers[i].reply = Greeting
        /\ handlers[i].ai = "none"

\* C6: when the completion call of an admitted message fails, the user's
\* count goes up by exactly 1, the user is taken out of translation mode if
\* the message was a translation turn, and save_counters runs: either the
\* file then holds the new ledger and the handler goes on to send the
\* apology, or the write itself raised.
C6_FailureStillCounts ==
    [][\A i \in Tasks :
        (handlers[i].pc = "awaiting_ai" /\ chat_resume(i)
         /\ handlers'[i].ai = "failed") =>
            LET u == handlers[i].user
            IN  /\ USER_COUNTERS'[u].count = USER_COUNTERS[u].count + 1
                /\ USER_COUNTERS'[u].reset_time = USER_COUNTERS[u].reset_time
                /\ \/ /\ handlers'[i].pc = "replying"
                      /\ handlers'[i].reply = Apology
                      /\ handlers'[i].saved = "ok"
                      /\ file'.state = "ok"
                      /\ Load(file'.data) = USER_COUNTERS'
                   \/ /\ handlers'[i].pc = "raised"
                      /\ handlers'[i].error = "OSError"
                /\ handlers[i].is_translate_mode => u \notin TRANSLATE_MODE_USERS'
      ]_vars

\* The apology is being sent for a failed completion; the count is on file.
C6_Witness ==
    \E i \in Tasks :
        /\ handlers[i].kind = "chat"
        /\ handlers[i].ai = "failed"
        /\ handlers[i].pc = "replying"
        /\ handlers[i].reply = Apology
        /\ file.state = "ok"
        /\ file.data[handlers[i].user].count = DAILY_LIMIT
        /\ USER_COUNTERS[handlers[i].user].count = DAILY_LIMIT

\* C7: the typing task of an invocation runs only while the invocation
\* awaits its completion: once the call has settled, however the handler
\* leaves, the task is not running, and a typing signal is emitted only by
\* a running task of an invocation that still awaits.
C7_TypingStopped ==
    /\ [](\A i \in Tasks :
            handlers[i].typing = "running" => handlers[i].pc = "awaiting_ai")
    /\ [][\A i \in Tasks :
            handlers'[i].signals > handlers[i].signals =>
                /\ handlers[i].typing = "running"
                /\ handlers[i].pc = "awaiting_ai"
         ]_vars

\* An invocation whose completion failed has stopped its typing task after
\* the task had sent a signal.
C7_Witness ==
    \E i \in Tasks :
        /\ handlers[i].pc = "replying"
        /\ handlers[i].ai = "failed"
        /\ handlers[i].typing = "cancelled"
        /\ handlers[i].signals > 0

\* The invocation in slot i is between its admission check and its commit.
InCriticalSection(i) ==
    /\ handlers[i].kind = "chat"
    /\ handlers[i].pc = "awaiting_ai"

FileIsSaved == file = save_counters(USER_COUNTERS, file, "ok")

\* C9: when the file holds a save of the ledger and the process restarts,
\* the ledger loaded at start-up equals the ledger before the restart: the
\* same users, each with the same count and the same reset_time.
C9_SaveLoadRoundTrip ==
    [][(Restart /\ FileIsSaved) =>
           /\ proc' # "crashed"
           /\ USER_COUNTERS' = USER_COUNTERS]_vars

\* A restarted process (no handler has run since) holds a ledger with two
\* users, a reset_time with a sub-second part among them, equal to the file.
C9_Witness ==
    /\ \A i \in Tasks : handlers[i].pc = "idle"
    /\ DOMAIN USER_COUNTERS = Users
    /\ \E u \in Users : USER_COUNTERS[u].reset_time % TicksPerSecond # 0
    /\ \E u \in Users : USER_COUNTERS[u].reset_time % TicksPerSecond = 0
    /\ FileIsSaved

\* C10: when a commit has completed (an invocation has come from its
\* dispatch or from its completion call to reply_text with its save done),
\* the file holds the whole ledger in memory: every user's current count
\* and reset_time.
C10_FileHoldsLedgerAfterCommit ==
    [][\A i \in Tasks :
        (/\ handlers'[i].pc = "replying"
         /\ handlers'[i].saved = "ok"
         /\ FreeSlot(i) \/ handlers[i].pc = "awaiting_ai") =>
            /\ file'.state = "ok"
            /\ DOMAIN file'.data = DOMAIN USER_COUNTERS'
            /\ Load(file'.data) = USER_COUNTERS'
      ]_vars

\* A commit of one user has just written the file, which also holds the
\* other user's committed count.
C10_Witness ==
    \E i \in Tasks :
        /\ handlers[i].pc = "replying"
        /\ handlers[i].saved = "ok"
        /\ file.state = "ok"
        /\ DOMAIN file.data = Users
        /\ \A u \in Users : file.data[u].count >= 1
        /\ Load(file.data) = USER_COUNTERS

\* C11: a write of the ledger file that fails is handled inside the
\* handler: no invocation is ended by the exception of save_counters (it
\* goes on to reply_text), and the file never loses the records it held
\* (it is never left cut short by a write that failed).
C11_FlushFailureHandled ==
    /\ \A i \in Tasks : handlers[i].error # "OSError"
    /\ file.state # "corrupt"

\* What json.dump wrote for one user: the count and the reset time, and
\* nothing about translation mode.
QuotaFieldsOnly(data) ==
    \A u \in DOMAIN data : DOMAIN data[u] = {"count", "reset_time"}

\* C12: a restart leaves no user in translation mode, whatever the set was
\* before, and restores the quota records that the file holds; the file
\* never holds anything but quota records (translation mode is not
\* written to it).
C12_ModeLostQuotaRestored ==
    [][/\ file'.state = "ok" => QuotaFieldsOnly(file'.data)
       /\ Restart =>
            /\ TRANSLATE_MODE_USERS' = {}
            /\ file.state = "ok" =>
                 /\ DOMAIN USER_COUNTERS' = DOMAIN file.data
                 /\ Dump(USER_COUNTERS') = file.data]_vars

\* A restarted process (no handler has run since): nobody is in
\* translation mode and the ledger holds the flushed records of both users,
\* one of them with count 0 (a record that /translate created and another
\* user's commit flushed).
C12_Witness ==
    /\ \A i \in Tasks : handlers[i].pc = "idle"
    /\ proc = "running"
    /\ TRANSLATE_MODE_USERS = {}
    /\ file.state = "ok"
    /\ DOMAIN USER_COUNTERS = Users
    /\ Dump(USER_COUNTERS) = file.data
    /\ \E u \in Users : USER_COUNTERS[u].count = 0

\* C13: a process that the messaging collaborator has told of a conflict
\* with another active instance does not go back to polling and does not
\* end with status 0: the only way it leaves that state is by ending with
\* a non-zero exit status.
C13_ConflictEndsNonZero ==
    [][(proc = "conflict" /\ proc' # "conflict") =>
           ExitStatusOf(proc') > 0]_vars

\* The step changes (or creates) the record of user u.
RecordChanged(u) ==
    \/ u \notin DOMAIN USER_COUNTERS
    \/ USER_COUNTERS'[u] # USER_COUNTERS[u]

\* The step holds the commit (lines 159-161) of a chat message of user u:
\* of a message dispatched in this step (cached reply) or of one that was
\* awaiting its completion call.  A slot whose save raised does not keep
\* its user.
CommitsFor(u) ==
    \E i \in Tasks :
        /\ \/ FreeSlot(i)
           \/ handlers[i].pc = "awaiting_ai" /\ handlers[i].user = u
        /\ \/ /\ handlers'[i].pc = "replying"
              /\ handlers'[i].kind = "chat"
              /\ handlers'[i].user = u
              /\ handlers'[i].saved = "ok"
           \/ handlers'[i].error = "OSError"

\* The step dispatches /start, /help or /translate.
CommandStep ==
    \E i \in Tasks :
        /\ FreeSlot(i)
        /\ handlers'[i].kind \in {"start", "help", "translate"}

\* C14: within a run of the process a record is never deleted and a user's
\* record changes in two ways only: the admission check creates it or
\* resets it (count 0, reset_time one day ahead) when the user has no
\* record or the window has expired, and the commit of an admitted chat
\* message of the user adds exactly 1 to the count.  A step without a
\* commit (the admission check alone, /start, /help, /translate) never
\* raises a count.
C14_CountChangesTwoWays ==
    [][Restart \/
       /\ DOMAIN USER_COUNTERS \subseteq DOMAIN USER_COUNTERS'
       /\ \A u \in DOMAIN USER_COUNTERS' :
            RecordChanged(u) =>
              LET fresh == [count |-> 0, reset_time |-> now + Day]
                  admitting == u \notin DOMAIN USER_COUNTERS \/ Expired(u)
              IN  \/ admitting /\ USER_COUNTERS'[u] = fresh
                  \/ /\ admitting
                     /\ CommitsFor(u)
                     /\ USER_COUNTERS'[u] = [fresh EXCEPT !.count = 1]
                  \/ /\ u \in DOMAIN USER_COUNTERS
                     /\ CommitsFor(u)
                     /\ USER_COUNTERS'[u] =
                          [USER_COUNTERS[u] EXCEPT !.count = @ + 1]
       /\ CommandStep =>
            \A u \in DOMAIN USER_COUNTERS' :
                RecordChanged(u) => USER_COUNTERS'[u].count = 0]_vars

\* A chat message of user 1 has been committed on a record that stood at
\* count 1 (its reply is being sent, the count is 2), and user 2 holds a
\* record with count 0 that the admission check of /translate created.
C14_Witness ==
    /\ \E i \in Tasks :
        /\ handlers[i].pc = "replying"
        /\ handlers[i].kind = "chat"
        /\ handlers[i].user = 1
        /\ handlers[i].branch = "under"
        /\ handlers[i].saved = "ok"
    /\ 1 \in DOMAIN USER_COUNTERS
    /\ USER_COUNTERS[1].count = 2
    /\ 2 \in DOMAIN USER_COUNTERS
    /\ USER_COUNTERS[2].count = 0
    /\ 2 \in TRANSLATE_MODE_USERS

\* C15: /translate of a user who is already in translation mode leaves the
\* set as it is (the user is in it once, however many times the command
\* was given), and the one translation turn that follows takes the user
\* out of it: the message after that turn is ordinary chat again.
C15_TranslateIdempotent ==
    [][/\ \A i \in Tasks :
            (/\ FreeSlot(i)
             /\ handlers'[i].kind = "translate"
             /\ handlers'[i].user \in TRANSLATE_MODE_USERS)
            => /\ TRANSLATE_MODE_USERS' = TRANSLATE_MODE_USERS
               /\ handlers'[i].reply = TranslateAsk
       /\ \A i \in Tasks :
            (/\ handlers[i].pc = "awaiting_ai"
             /\ handlers[i].is_translate_mode
             /\ handlers'[i].pc # "awaiting_ai")
            => handlers[i].user \notin TRANSLATE_MODE_USERS']_vars

\* /translate has been admitted for a user whose record existed with count
\* 0 and an open window: the record that an earlier /translate of the user
\* created (a chat message would have counted).  The user is in the set.
C15_Witness ==
    \E i \in Tasks :
        /\ handlers[i].pc = "replying"
        /\ handlers[i].kind = "translate"
        /\ handlers[i].branch = "under"
        /\ handlers[i].reply = TranslateAsk
        /\ USER_COUNTERS[handlers[i].user].count = 0
        /\ file.state = "absent"
        /\ handlers[i].user \in TRANSLATE_MODE_USERS

\* C16: an admitted chat invocation that has not yet committed (it awaits
\* its completion call) finds the record of its user in the ledger, and no
\* invocation has been ended by a missing key at the commit.
C16_RecordExistsAtCommit ==
    \A i \in Tasks :
        /\ handlers[i].pc = "awaiting_ai" =>
               handlers[i].user \in DOMAIN USER_COUNTERS
        /\ handlers[i].error # "KeyError"

\* The first message of a user awaits its completion call after the clock
\* has advanced: the record that the admission check created is there.
C16_Witness ==
    \E i \in Tasks :
        /\ handlers[i].pc = "awaiting_ai"
        /\ handlers[i].branch = "new"
        /\ now > 0
        /\ handlers[i].user \in DOMAIN USER_COUNTERS
        /\ USER_COUNTERS[handlers[i].user].count = 0

\* C17: no handler invocation ends without having replied: an invocation
\* that has ended either returned from reply_text or was ended by
\* reply_text itself (the transport refused the reply that was being sent),
\* never by an exception raised before the reply.
C17_NoInvocationEndsSilent ==
    \A i \in Tasks :
        handlers[i].pc = "raised" => handlers[i].error = "NetworkError"

\* C18: /translate goes through the admission check.  For a user who is
\* over the limit inside the window it answers with the limit notice and
\* changes neither the set nor the ledger; otherwise it answers with the
\* request for the text and adds the user to the set, without raising the
\* user's count.  It never writes the file.
C18_TranslateGated ==
    [][\A i \in Tasks :
        (FreeSlot(i) /\ handlers'[i].kind = "translate") =>
          LET u == handlers'[i].user
          IN  /\ file' = file
              /\ OverLimit(u) =>
                   /\ handlers'[i].reply = LimitNotice
                   /\ TRANSLATE_MODE_USERS' = TRANSLATE_MODE_USERS
                   /\ USER_COUNTERS' = USER_COUNTERS
              /\ ~OverLimit(u) =>
                   /\ handlers'[i].reply = TranslateAsk
                   /\ TRANSLATE_MODE_USERS' = TRANSLATE_MODE_USERS \cup {u}
                   /\ USER_COUNTERS'[u].count =
                        IF u \in DOMAIN USER_COUNTERS /\ ~Expired(u)
                        THEN USER_COUNTERS[u].count ELSE 0]_vars

\* /translate of a user who has used up the limit is being answered with
\* the limit notice; the user is not in translation mode.
C18_Witness ==
    \E i \in Tasks :
        /\ handlers[i].pc = "replying"
        /\ handlers[i].kind = "translate"
        /\ handlers[i].reply = LimitNotice
        /\ USER_COUNTERS[handlers[i].user].count >= DAILY_LIMIT
        /\ handlers[i].user \notin TRANSLATE_MODE_USERS

\* The step changes the quota record of user v (creates, replaces or
\* removes it) or v's translation flag.
Touched(v) ==
    \/ (v \in TRANSLATE_MODE_USERS) # (v \in TRANSLATE_MODE_USERS')
    \/ (v \in DOMAIN USER_COUNTERS) # (v \in DOMAIN USER_COUNTERS')
    \/ /\ v \in DOMAIN USER_COUNTERS
       /\ v \in DOMAIN USER_COUNTERS'
       /\ USER_COUNTERS'[v] # USER_COUNTERS[v]

\* The step is a segment of a handler that runs for user v: the dispatch
\* of a chat message or of /translate of v, or the continuation of a chat
\* message of v after its completion call.
ActsFor(v) ==
    \/ \E m \in UserTexts : ChatBegins(v, m)
    \/ \E i \in Tasks :
        /\ FreeSlot(i)
        /\ handlers'[i].kind = "translate"
        /\ handlers'[i].user = v
    \/ \E i \in Tasks :
        /\ handlers[i].pc = "awaiting_ai"
        /\ handlers[i].user = v
        /\ handlers'[i].pc # "awaiting_ai"

\* C19: a handler step changes the quota record and the translation flag
\* of no user but the one it runs for.
C19_OtherUsersUntouched ==
    [][Restart \/ \A v \in Users : Touched(v) => ActsFor(v)]_vars

\* The translation turn of user 1 has been committed while user 2 is in
\* translation mode and holds a record: both are as user 2 left them.
C19_Witness ==
    /\ \E i \in Tasks :
        /\ handlers[i].pc = "replying"
        /\ handlers[i].kind = "chat"
        /\ handlers[i].user = 1
        /\ handlers[i].is_translate_mode
        /\ handlers[i].saved = "ok"
    /\ 1 \notin TRANSLATE_MODE_USERS
    /\ 2 \in TRANSLATE_MODE_USERS
    /\ 2 \in DOMAIN USER_COUNTERS
    /\ USER_COUNTERS[2].count = 0

\* s contains the bold token "**".
HasBold(s) == \E k \in 1..(Len(s) - 1) : s[k] = "*" /\ s[k + 1] = "*"

\* s contains an HTML-like tag: "<", one or more characters other than
\* ">", and ">".
HasTag(s) ==
    \E j \in 1..Len(s) : \E k \in (j + 2)..Len(s) :
        /\ s[j] = "<"
        /\ s[k] = ">"
        /\ \A n \in (j + 1)..(k - 1) : s[n] # ">"

\* s has no leading and no trailing whitespace.
Trimmed(s) ==
    s # <<>> => s[1] \notin Whitespace /\ s[Len(s)] \notin Whitespace

\* C20 as stated: the result of clean_response contains no "**" and no
\* HTML-like tag, has no leading or trailing whitespace, and
\* clean_response returns it unchanged.
C20_SanitizedIsClean ==
    /\ sanitizing.stage \in {"returned", "again"} =>
        /\ ~HasBold(sanitizing.out)
        /\ ~HasTag(sanitizing.out)
        /\ Trimmed(sanitizing.out)
    /\ sanitizing.stage = "again" => sanitizing.again = sanitizing.out

\* C20, amended: the result of clean_response contains no HTML-like tag
\* and has no leading or trailing whitespace; it contains "**" only where
\* the removal of a tag has brought two "*" together; and when it contains
\* no "**", clean_response returns it unchanged.
C20_SanitizedAmended ==
    /\ sanitizing.stage \in {"returned", "again"} =>
        /\ ~HasTag(sanitizing.out)
        /\ Trimmed(sanitizing.out)
        /\ HasBold(sanitizing.out) => HasTag(ReplaceBold(sanitizing.text))
    /\ (sanitizing.stage = "again" /\ ~HasBold(sanitizing.out)) =>
        sanitizing.again = sanitizing.out

\* A text with the bold token and a tag has been sanitized to "b", and
\* sanitized again.
C20_Witness ==
    /\ sanitizing.stage = "again"
    /\ HasBold(sanitizing.text)
    /\ HasTag(sanitizing.text)
    /\ sanitizing.out = <<"b">>
    /\ sanitizing.again = <<"b">>

====
